---- MODULE Spec2Model ----
(***************************************************************************)
(* Payment confirmation flow of the checkout: the UPIPayment and           *)
(* ScanToPayment components (channel selection, deep-link launch, UTR      *)
(* entry, confirmation) and the CashfreePayment component with its edge    *)
(* function.  One component instance is mounted per behaviour; each event  *)
(* handler of the source is one action.                                    *)
(***************************************************************************)
EXTENDS Integers, Sequences, FiniteSets, TLC

VARIABLES
    component,       \* which checkout component is mounted in this behaviour
    mounted,         \* the component instance is still in the page
    platform,        \* what navigator.userAgent matches
    disabled,        \* the `disabled` prop
    merchantName,    \* the `merchantName` prop, a sequence of characters
    selectedMethod,  \* UPIPayment state
    utrNumber,       \* UPIPayment / ScanToPayment state, a sequence of characters
    showPaymentUI,   \* UPIPayment / ScanToPayment state
    appLaunched,     \* UPIPayment state
    timeLeft,        \* UPIPayment / ScanToPayment state
    ticks,           \* runs of the interval callback since the mount
    loading,         \* CashfreePayment state
    sdkLoaded,       \* window.Cashfree is defined
    inflight,        \* create_order invocations awaiting their response
    scripts,         \* appended SDK script tags whose onload has not run: their checkoutOptions
    pending,         \* delayed fallback navigations scheduled by setTimeout and not yet run
    inApp,           \* the shopper is in a payment app, the page is in the background
    typed,           \* e.target.value of the most recent change event of the UTR input
    launched,        \* the navigations of the launch that opened the payment UI now shown
    emitCount,       \* onPaymentConfirm calls since the session was last reset
    gateway,         \* the hosted-gateway flow: idle, pending, verifying, verified, failed
    count,           \* pay clicks, create_order invocations, POSTs to the gateway so far
    last,            \* the handler the most recent step ran
    out              \* what the most recent step did to the outside world

vars == <<component, mounted, platform, disabled, merchantName, selectedMethod,
          utrNumber, showPaymentUI, appLaunched, timeLeft, ticks, loading, sdkLoaded,
          inflight, scripts, gateway, count, pending, inApp, typed, launched, emitCount,
          last, out>>

upiVars == <<selectedMethod, utrNumber, showPaymentUI, appLaunched>>
cashfreeVars == <<loading, sdkLoaded, inflight, scripts, gateway, count>>
clock == <<timeLeft, ticks>>

----------------------------------------------------------------------------
(* Bounds of the model *)

\* longest text the UTR input is given (the input itself allows 20)
MaxLen == 7
\* most delayed fallbacks pending at once
MaxPending == 2
\* emitCount saturates here
MaxEmits == 2
\* most SDK script tags waiting to load at once
MaxScripts == 2
\* most clicks on the pay button
MaxClicks == 2
\* longest display name the component is given
MaxNameLen == 3
\* ticks saturates here
MaxTicks == 20

----------------------------------------------------------------------------
(* Constants of the program *)

Null == "null"

Digits == {"1"}
\* characters the shopper can type: a digit, a letter, a blank
Alphabet == Digits \cup {"A", " "}
Whitespace == {" "}

\* minimum trimmed length of a UTR
MinUtrLen == 6

UPI_APPS ==
    [ PhonePe |-> [name |-> "PhonePe", scheme |-> <<"phonepe", "pay">>,
                   package |-> "com.phonepe.app", iosScheme |-> <<"phonepe", "pay">>],
      GPay    |-> [name |-> "Google Pay", scheme |-> <<"tez", "upi/pay">>,
                   package |-> "com.google.android.apps.nbu.paisa.user",
                   iosScheme |-> <<"gpay", "upi/pay">>],
      Paytm   |-> [name |-> "Paytm", scheme |-> <<"paytmmp", "pay">>,
                   package |-> "net.one97.paytm", iosScheme |-> <<"paytm", "pay">>] ]

AppKeys == DOMAIN UPI_APPS
ScanToPay == "Scan To Pay"
Methods == AppKeys \cup {ScanToPay}

Platforms == {"Android", "iOS", "OtherMobile", "Desktop"}
Components == {"UPIPayment", "ScanToPayment", "CashfreePayment"}

\* default values of the props
DefaultUpiId == <<"m", "e", "r", "c", "h", "a", "n", "t", "@", "p", "a", "y", "t", "m">>
DefaultMerchantName == <<"F", "l", "i", "p", "k", "a", "r", "t">>
\* amount.toFixed(2) of an amount of 1
AmountFixed == <<"1", ".", "0", "0">>

\* characters of the display names the component is given
NameChars == {"F", " ", "&", "%"}

isMobile == platform \in {"Android", "iOS", "OtherMobile"}
isAndroid == platform = "Android"
isIOS == platform = "iOS"

----------------------------------------------------------------------------
(* Strings *)

RECURSIVE StripNonDigits(_)
\* value.replace(/[^0-9]/g, '')
StripNonDigits(s) ==
    IF s = <<>> THEN <<>>
    ELSE IF Head(s) \in Digits THEN <<Head(s)>> \o StripNonDigits(Tail(s))
    ELSE StripNonDigits(Tail(s))

RECURSIVE TrimStart(_)
TrimStart(s) ==
    IF s # <<>> /\ Head(s) \in Whitespace THEN TrimStart(Tail(s)) ELSE s

RECURSIVE TrimEnd(_)
TrimEnd(s) ==
    IF s # <<>> /\ s[Len(s)] \in Whitespace THEN TrimEnd(SubSeq(s, 1, Len(s) - 1)) ELSE s

\* String.prototype.trim
Trim(s) == TrimEnd(TrimStart(s))

\* 'a://b'.split('://')[0]
SchemeName(url) == url[1]

\* the two hexadecimal digits of the characters that are written as %XX
EscapeCode == [c \in {" ", "%", "&", "+", "@"} |->
                 CASE c = " " -> <<"2", "0">>
                   [] c = "%" -> <<"2", "5">>
                   [] c = "&" -> <<"2", "6">>
                   [] c = "+" -> <<"2", "B">>
                   [] c = "@" -> <<"4", "0">>]

Escape(c) == <<"%">> \o EscapeCode[c]

RECURSIVE encodeURIComponent(_)
\* letters, digits and - _ . ! ~ * ' ( ) stay, every other character is escaped
encodeURIComponent(s) ==
    IF s = <<>> THEN <<>>
    ELSE (IF Head(s) \in DOMAIN EscapeCode THEN Escape(Head(s)) ELSE <<Head(s)>>)
         \o encodeURIComponent(Tail(s))

RECURSIVE FormEncode(_)
\* a value as URLSearchParams.prototype.toString writes it: a blank becomes
\* '+', letters, digits and * - . _ stay, every other character is escaped
FormEncode(s) ==
    IF s = <<>> THEN <<>>
    ELSE (IF Head(s) = " " THEN <<"+">>
          ELSE IF Head(s) \in DOMAIN EscapeCode THEN Escape(Head(s))
          ELSE <<Head(s)>>)
         \o FormEncode(Tail(s))

----------------------------------------------------------------------------
(* Deep links *)

\* `Payment to ${merchantName}`
Note(name) == <<"P", "a", "y", "m", "e", "n", "t", " ", "t", "o", " ">> \o name

\* variant: the note carries the reference entered so far
generateUPILink_Stateful(appScheme) ==
    [kind |-> "link", scheme |-> appScheme, package |-> Null,
     query |-> [pa |-> FormEncode(DefaultUpiId),
                pn |-> FormEncode(encodeURIComponent(merchantName)),
                am |-> FormEncode(AmountFixed),
                cu |-> FormEncode(<<"I", "N", "R">>),
                tn |-> FormEncode(encodeURIComponent(Note(merchantName) \o utrNumber))]]

\* the query string: each value as it stands after its '='
generateUPILink(appScheme) ==
    [kind |-> "link", scheme |-> appScheme, package |-> Null,
     query |-> [pa |-> FormEncode(DefaultUpiId),
                pn |-> FormEncode(encodeURIComponent(merchantName)),
                am |-> FormEncode(AmountFixed),
                cu |-> FormEncode(<<"I", "N", "R">>),
                tn |-> FormEncode(encodeURIComponent(Note(merchantName)))]]

generateAndroidIntent(packageName) ==
    [kind |-> "intent", scheme |-> "upi", package |-> packageName,
     query |-> [pa |-> FormEncode(DefaultUpiId),
                pn |-> FormEncode(merchantName),
                am |-> FormEncode(AmountFixed),
                cu |-> FormEncode(<<"I", "N", "R">>),
                tn |-> FormEncode(Note(merchantName))]]

NoOut == [confirm |-> <<>>, nav |-> <<>>, toast |-> <<>>, fired |-> <<>>,
          checkout |-> <<>>, failure |-> <<>>, remote |-> <<>>, success |-> <<>>,
          script |-> <<>>, call |-> <<>>]

\* a delayed fallback as scheduled: nothing has happened to it yet
NewTimer == [switched |-> FALSE, stale |-> FALSE]

\* variant: iOS is given the Android scheme of the app
openUPIApp_UsesScheme(appKey) ==
    IF appKey \notin AppKeys
    THEN [nav |-> <<generateUPILink("upi")>>, timers |-> <<>>, toast |-> <<>>]
    ELSE IF isAndroid
    THEN [nav |-> <<generateAndroidIntent(UPI_APPS[appKey].package)>>,
          timers |-> <<NewTimer>>, toast |-> <<>>]
    ELSE IF isIOS
    THEN [nav |-> <<generateUPILink(SchemeName(UPI_APPS[appKey].scheme))>>,
          timers |-> <<>>, toast |-> <<>>]
    ELSE [nav |-> <<>>, timers |-> <<>>, toast |-> <<"Open on mobile">>]

\* what openUPIApp(appKey) does: navigations, timers scheduled, toasts
openUPIApp(appKey) ==
    IF appKey \notin AppKeys
    THEN [nav |-> <<generateUPILink("upi")>>, timers |-> <<>>, toast |-> <<>>]
    ELSE IF isAndroid
    THEN [nav |-> <<generateAndroidIntent(UPI_APPS[appKey].package)>>,
          timers |-> <<NewTimer>>, toast |-> <<>>]
    ELSE IF isIOS
    THEN [nav |-> <<generateUPILink(SchemeName(UPI_APPS[appKey].iosScheme))>>,
          timers |-> <<>>, toast |-> <<>>]
    ELSE [nav |-> <<>>, timers |-> <<>>, toast |-> <<"Open on mobile">>]

----------------------------------------------------------------------------
(* What is on screen *)

\* UPIPayment renders the payment UI, otherwise the method list
UPIPaymentUI == showPaymentUI /\ selectedMethod # Null

\* the shopper can act on the page
CanAct(c) == component = c /\ mounted /\ ~inApp

\* variant: the button asks for one character more than the handler
ConfirmDisabled_OffByOne == disabled \/ Len(Trim(utrNumber)) <= MinUtrLen

\* `disabled` of the confirm button, the same expression in both components
ConfirmDisabled == disabled \/ Len(Trim(utrNumber)) < MinUtrLen

\* values a change event of the UTR input can carry: the shown value with a
\* character added at either end, or with its last character deleted
InputValues(cur) ==
    { v \in {cur \o <<c>> : c \in Alphabet} \cup {<<c>> \o cur : c \in Alphabet} :
        Len(v) <= MaxLen }
    \cup (IF cur = <<>> THEN {} ELSE {SubSeq(cur, 1, Len(cur) - 1)})

Bump(n) == IF n < MaxEmits THEN n + 1 ELSE n

----------------------------------------------------------------------------
\* the state after the mount of one of `components`, given one of `names`
Mount(components, names) ==
    /\ component \in components
    /\ mounted = TRUE
    \* only UPIPayment reads the user agent
    /\ platform \in (IF component = "UPIPayment" THEN Platforms ELSE {"Desktop"})
    /\ disabled \in BOOLEAN
    /\ merchantName \in names
    /\ ticks = 0
    /\ selectedMethod = Null
    /\ utrNumber = <<>>
    /\ showPaymentUI = FALSE
    /\ appLaunched = FALSE
    /\ timeLeft = IF component = "ScanToPayment"
                  THEN [minutes |-> 9, seconds |-> 59]
                  ELSE [minutes |-> 6, seconds |-> 12]
    /\ loading = FALSE
    /\ sdkLoaded \in (IF component = "CashfreePayment" THEN BOOLEAN ELSE {FALSE})
    /\ inflight = <<>>
    /\ scripts = <<>>
    /\ gateway = "idle"
    /\ count = [clicks |-> 0, invokes |-> 0, posts |-> 0]
    /\ pending = <<>>
    /\ inApp = FALSE
    /\ typed = <<>>
    /\ launched = <<>>
    /\ emitCount = 0
    /\ last = "mount"
    /\ out = NoOut

Init == Mount(Components, {DefaultMerchantName})

env == <<component, mounted, platform, disabled, merchantName>>

----------------------------------------------------------------------------
(* UPIPayment *)

handleMethodSelect(method) ==
    /\ CanAct("UPIPayment") /\ ~UPIPaymentUI /\ ~disabled
    /\ selectedMethod' = method
    /\ last' = "handleMethodSelect"
    /\ out' = NoOut
    /\ UNCHANGED <<env, utrNumber, showPaymentUI, appLaunched, clock, launched, cashfreeVars,
                   pending, inApp, typed, emitCount>>

\* variant: the Continue button opens an app for every method, 'Scan To Pay' too
handleOpenApp_NoScanCheck ==
    /\ CanAct("UPIPayment") /\ ~UPIPaymentUI
    /\ ~(disabled \/ selectedMethod = Null)
    /\ last' = "handleOpenApp"
    /\ appLaunched' = TRUE
    /\ showPaymentUI' = TRUE
    /\ IF isMobile
       THEN LET o == openUPIApp(selectedMethod) IN
            /\ Len(pending) + Len(o.timers) <= MaxPending
            /\ pending' = pending \o o.timers
            /\ out' = [NoOut EXCEPT !.nav = o.nav,
                                    !.toast = o.toast \o <<"Opening">>]
       ELSE /\ out' = NoOut
            /\ UNCHANGED pending
    /\ UNCHANGED <<env, selectedMethod, utrNumber, clock, cashfreeVars, inApp,
                   typed, emitCount>>
    /\ launched' = out'.nav

\* the Continue button
\* variant: the launch shows the payment UI without setting appLaunched
handleOpenApp_NoLaunchFlag ==
    /\ CanAct("UPIPayment") /\ ~UPIPaymentUI
    /\ ~(disabled \/ selectedMethod = Null)
    /\ last' = "handleOpenApp"
    /\ showPaymentUI' = TRUE
    /\ IF selectedMethod # ScanToPay /\ isMobile
       THEN LET o == openUPIApp(selectedMethod) IN
            /\ Len(pending) + Len(o.timers) <= MaxPending
            /\ pending' = pending \o o.timers
            /\ out' = [NoOut EXCEPT !.nav = o.nav,
                                    !.toast = o.toast \o <<"Opening">>]
       ELSE /\ out' = NoOut
            /\ UNCHANGED pending
    /\ UNCHANGED <<env, selectedMethod, utrNumber, appLaunched, clock, cashfreeVars,
                   inApp, typed, emitCount>>
    /\ launched' = out'.nav

handleOpenApp ==
    /\ CanAct("UPIPayment") /\ ~UPIPaymentUI
    /\ ~(disabled \/ selectedMethod = Null)
    /\ last' = "handleOpenApp"
    /\ IF selectedMethod = Null
       THEN /\ out' = NoOut
            /\ UNCHANGED <<appLaunched, showPaymentUI, pending>>
       ELSE /\ appLaunched' = TRUE
            /\ showPaymentUI' = TRUE
            /\ IF selectedMethod # ScanToPay /\ isMobile
               THEN LET o == openUPIApp(selectedMethod) IN
                    /\ Len(pending) + Len(o.timers) <= MaxPending
                    /\ pending' = pending \o o.timers
                    /\ out' = [NoOut EXCEPT !.nav = o.nav,
                                            !.toast = o.toast \o <<"Opening">>]
               ELSE /\ out' = NoOut
                    /\ UNCHANGED pending
    /\ UNCHANGED <<env, selectedMethod, utrNumber, clock, cashfreeVars, inApp,
                   typed, emitCount>>
    /\ launched' = out'.nav

\* variant: opening the app again starts the reference over
RetryOpenApp_ClearsUtr ==
    /\ CanAct("UPIPayment") /\ UPIPaymentUI
    /\ appLaunched /\ selectedMethod # ScanToPay
    /\ LET o == openUPIApp(selectedMethod) IN
       /\ Len(pending) + Len(o.timers) <= MaxPending
       /\ pending' = pending \o o.timers
       /\ out' = [NoOut EXCEPT !.nav = o.nav, !.toast = o.toast]
    /\ utrNumber' = <<>>
    /\ last' = "openUPIApp"
    /\ UNCHANGED <<env, selectedMethod, showPaymentUI, appLaunched, clock, launched,
                   cashfreeVars, inApp, typed, emitCount>>

\* "Open {selectedMethod} again"
RetryOpenApp ==
    /\ CanAct("UPIPayment") /\ UPIPaymentUI
    /\ appLaunched /\ selectedMethod # ScanToPay
    /\ LET o == openUPIApp(selectedMethod) IN
       /\ Len(pending) + Len(o.timers) <= MaxPending
       /\ pending' = pending \o o.timers
       /\ out' = [NoOut EXCEPT !.nav = o.nav, !.toast = o.toast]
    /\ last' = "openUPIApp"
    /\ UNCHANGED <<env, upiVars, clock, launched, cashfreeVars, inApp, typed, emitCount>>

\* the setTimeout callback of openUPIApp
FallbackFire ==
    /\ component = "UPIPayment"
    /\ pending # <<>>
    /\ pending' = Tail(pending)
    /\ last' = "fallback"
    /\ out' = [NoOut EXCEPT !.nav = <<generateUPILink("upi")>>, !.fired = <<Head(pending)>>]
    /\ UNCHANGED <<env, upiVars, clock, launched, cashfreeVars, inApp, typed, emitCount>>

\* variant: the change handler stores the value unfiltered
UPI_onChange_Unfiltered ==
    /\ CanAct("UPIPayment") /\ UPIPaymentUI
    /\ \E value \in InputValues(utrNumber) :
        /\ typed' = value
        /\ utrNumber' = value
    /\ last' = "onChange"
    /\ out' = NoOut
    /\ UNCHANGED <<env, selectedMethod, showPaymentUI, appLaunched, clock, launched,
                   cashfreeVars, pending, inApp, emitCount>>

\* onChange of the UTR input
UPI_onChange ==
    /\ CanAct("UPIPayment") /\ UPIPaymentUI
    /\ \E value \in InputValues(utrNumber) :
        /\ typed' = value
        /\ utrNumber' = StripNonDigits(value)
    /\ last' = "onChange"
    /\ out' = NoOut
    /\ UNCHANGED <<env, selectedMethod, showPaymentUI, appLaunched, clock, launched,
                   cashfreeVars, pending, inApp, emitCount>>

\* variant: the handler trusts the button and does not check the length itself
UPI_handleConfirmPayment_NoLengthCheck ==
    /\ last' = "handleConfirmPayment"
    /\ IF selectedMethod = Null
       THEN /\ out' = [NoOut EXCEPT !.toast = <<"Enter UTR Number">>]
            /\ UNCHANGED emitCount
       ELSE /\ out' = [NoOut EXCEPT !.confirm = <<<<utrNumber, selectedMethod>>>>]
            /\ emitCount' = Bump(emitCount)
    /\ UNCHANGED <<env, upiVars, clock, launched, cashfreeVars, pending, inApp, typed>>

\* variant: a refused confirmation also wipes the entered reference
UPI_handleConfirmPayment_ClearsOnRefusal ==
    /\ last' = "handleConfirmPayment"
    /\ IF Len(Trim(utrNumber)) < MinUtrLen \/ selectedMethod = Null
       THEN /\ out' = [NoOut EXCEPT !.toast = <<"Enter UTR Number">>]
            /\ utrNumber' = <<>>
            /\ UNCHANGED emitCount
       ELSE /\ out' = [NoOut EXCEPT !.confirm = <<<<utrNumber, selectedMethod>>>>]
            /\ emitCount' = Bump(emitCount)
            /\ UNCHANGED utrNumber
    /\ UNCHANGED <<env, selectedMethod, showPaymentUI, appLaunched, clock, launched, cashfreeVars,
                   pending, inApp, typed>>

UPI_handleConfirmPayment ==
    /\ last' = "handleConfirmPayment"
    /\ IF Len(Trim(utrNumber)) < MinUtrLen \/ selectedMethod = Null
       THEN /\ out' = [NoOut EXCEPT !.toast = <<"Enter UTR Number">>]
            /\ UNCHANGED emitCount
       ELSE /\ out' = [NoOut EXCEPT !.confirm = <<<<utrNumber, selectedMethod>>>>]
            /\ emitCount' = Bump(emitCount)
    /\ UNCHANGED <<env, upiVars, clock, launched, cashfreeVars, pending, inApp, typed>>

\* a click on "I have completed the payment"
UPI_ClickConfirm ==
    /\ CanAct("UPIPayment") /\ UPIPaymentUI
    /\ ~ConfirmDisabled
    /\ UPI_handleConfirmPayment

\* variant: the reset forgets to clear the reference
UPI_ChooseDifferent_KeepsUtr ==
    /\ CanAct("UPIPayment") /\ UPIPaymentUI
    /\ showPaymentUI' = FALSE
    /\ selectedMethod' = Null
    /\ appLaunched' = FALSE
    /\ pending' = [i \in DOMAIN pending |-> [pending[i] EXCEPT !.stale = TRUE]]
    /\ emitCount' = 0
    /\ last' = "reset"
    /\ out' = NoOut
    /\ UNCHANGED <<env, utrNumber, clock, cashfreeVars, inApp, typed>>
    /\ launched' = <<>>

\* variant: the reset forgets to clear appLaunched
UPI_ChooseDifferent_KeepsLaunched ==
    /\ CanAct("UPIPayment") /\ UPIPaymentUI
    /\ showPaymentUI' = FALSE
    /\ selectedMethod' = Null
    /\ utrNumber' = <<>>
    /\ pending' = [i \in DOMAIN pending |-> [pending[i] EXCEPT !.stale = TRUE]]
    /\ emitCount' = 0
    /\ last' = "reset"
    /\ out' = NoOut
    /\ UNCHANGED <<env, appLaunched, clock, cashfreeVars, inApp, typed>>
    /\ launched' = <<>>

\* "Choose different payment method"
UPI_ChooseDifferent ==
    /\ CanAct("UPIPayment") /\ UPIPaymentUI
    /\ showPaymentUI' = FALSE
    /\ selectedMethod' = Null
    /\ utrNumber' = <<>>
    /\ appLaunched' = FALSE
    /\ pending' = [i \in DOMAIN pending |-> [pending[i] EXCEPT !.stale = TRUE]]
    /\ emitCount' = 0
    /\ last' = "reset"
    /\ out' = NoOut
    /\ UNCHANGED <<env, clock, cashfreeVars, inApp, typed>>
    /\ launched' = <<>>

----------------------------------------------------------------------------
(* ScanToPayment *)

Scan_Open ==
    /\ CanAct("ScanToPayment") /\ ~showPaymentUI /\ ~disabled
    /\ showPaymentUI' = TRUE
    /\ last' = "open"
    /\ out' = NoOut
    /\ UNCHANGED <<env, selectedMethod, utrNumber, appLaunched, clock, launched, cashfreeVars,
                   pending, inApp, typed, emitCount>>

Scan_onChange ==
    /\ CanAct("ScanToPayment") /\ showPaymentUI
    /\ \E value \in InputValues(utrNumber) :
        /\ typed' = value
        /\ utrNumber' = StripNonDigits(value)
    /\ last' = "onChange"
    /\ out' = NoOut
    /\ UNCHANGED <<env, selectedMethod, showPaymentUI, appLaunched, clock, launched,
                   cashfreeVars, pending, inApp, emitCount>>

Scan_handleConfirmPayment ==
    /\ last' = "handleConfirmPayment"
    /\ IF Len(Trim(utrNumber)) < MinUtrLen
       THEN /\ out' = [NoOut EXCEPT !.toast = <<"Enter UTR Number">>]
            /\ UNCHANGED emitCount
       ELSE /\ out' = [NoOut EXCEPT !.confirm = <<<<utrNumber>>>>]
            /\ emitCount' = Bump(emitCount)
    /\ UNCHANGED <<env, upiVars, clock, launched, cashfreeVars, pending, inApp, typed>>

Scan_ClickConfirm ==
    /\ CanAct("ScanToPayment") /\ showPaymentUI
    /\ ~ConfirmDisabled
    /\ Scan_handleConfirmPayment

Scan_ChooseDifferent ==
    /\ CanAct("ScanToPayment") /\ showPaymentUI
    /\ showPaymentUI' = FALSE
    /\ utrNumber' = <<>>
    /\ emitCount' = 0
    /\ last' = "reset"
    /\ out' = NoOut
    /\ UNCHANGED <<env, selectedMethod, appLaunched, clock, launched, cashfreeVars, pending,
                   inApp, typed>>

----------------------------------------------------------------------------
(* The cashfree-payment edge function and its caller *)

SessionIds == {"session_a", "session_b"}

\* order_status values the gateway reports
OrderStatuses == {"PAID", "ACTIVE", "EXPIRED", "paid"}

\* what the gateway does with POST /orders: the fetch throws, or it answers
RemoteOutcomes ==
    {[threw |-> TRUE, status |-> 0, message |-> <<"fetch failed">>, session |-> <<>>]}
    \cup {[threw |-> FALSE, status |-> 200, message |-> <<>>, session |-> <<s>>] :
            s \in SessionIds}
    \cup {[threw |-> FALSE, status |-> st, message |-> m, session |-> <<>>] :
            st \in {400, 500}, m \in {<<>>, <<"order already exists">>}}

\* what the gateway does with GET /orders/{id}
VerifyOutcomes ==
    {[threw |-> TRUE, status |-> 0, message |-> <<"fetch failed">>, orderStatus |-> <<>>]}
    \cup {[threw |-> FALSE, status |-> 200, message |-> <<>>, orderStatus |-> <<o>>] :
            o \in OrderStatuses}
    \cup {[threw |-> FALSE, status |-> 404, message |-> <<"order not found">>,
           orderStatus |-> <<>>]}

OutcomesOf(action) == IF action = "verify_payment" THEN VerifyOutcomes ELSE RemoteOutcomes

\* Response.ok
ResponseOk(status) == status \in 200..299

ResponseBody(success, error, sessionId) ==
    [success |-> success, error |-> error, sessionId |-> sessionId]

VerifyBody(success, error, orderStatus, paymentStatus) ==
    [success |-> success, error |-> error, orderStatus |-> orderStatus,
     paymentStatus |-> paymentStatus]

\* variant: only the app id is looked at
CredentialsMissing_AppIdOnly(appId, secretKey) == ~appId

\* !appId || !secretKey
CredentialsMissing(appId, secretKey) == ~appId \/ ~secretKey

\* variant: the status is compared without regard to case
PaymentStatus_AnyCase(orderStatus) ==
    IF orderStatus \in {"PAID", "paid"} THEN "paid" ELSE "pending"

\* variant: an order that is merely open counts as paid
PaymentStatus_ActiveIsPaid(orderStatus) ==
    IF orderStatus \in {"PAID", "ACTIVE"} THEN "paid" ELSE "pending"

\* data.order_status === 'PAID' ? 'paid' : 'pending'
PaymentStatus(orderStatus) == IF orderStatus = "PAID" THEN "paid" ELSE "pending"

\* variant: the order token is handed out as the session id
SessionOf_OrderToken(remote) == <<"order_token">>

\* sessionId: data.payment_session_id
SessionOf(remote) == remote.session

\* the edge function on one POST: its response and the calls it made to the gateway
serve(action, appId, secretKey, remote) ==
    IF CredentialsMissing(appId, secretKey)
    THEN [status |-> 500, remote |-> <<>>,
          body |-> ResponseBody(FALSE, <<"Payment gateway not configured">>, <<>>)]
    ELSE IF action = "create_order"
    THEN IF remote.threw
         THEN [status |-> 500, remote |-> <<"POST /orders">>,
               body |-> ResponseBody(FALSE, remote.message, <<>>)]
         ELSE IF ~ResponseOk(remote.status)
         THEN [status |-> remote.status, remote |-> <<"POST /orders">>,
               body |-> ResponseBody(FALSE,
                            IF remote.message # <<>> THEN remote.message
                            ELSE <<"Failed to create payment order">>, <<>>)]
         ELSE [status |-> 200, remote |-> <<"POST /orders">>,
               body |-> ResponseBody(TRUE, <<>>, SessionOf(remote))]
    ELSE IF action = "verify_payment"
    THEN IF remote.threw
         THEN [status |-> 500, remote |-> <<"GET /orders/id">>,
               body |-> VerifyBody(FALSE, remote.message, <<>>, <<>>)]
         ELSE IF ~ResponseOk(remote.status)
         THEN [status |-> remote.status, remote |-> <<"GET /orders/id">>,
               body |-> VerifyBody(FALSE, <<"Failed to verify payment">>, <<>>, <<>>)]
         ELSE [status |-> 200, remote |-> <<"GET /orders/id">>,
               body |-> VerifyBody(TRUE, <<>>, remote.orderStatus,
                                   <<PaymentStatus(remote.orderStatus[1])>>)]
    ELSE [status |-> 400, remote |-> <<>>,
          body |-> ResponseBody(FALSE, <<"Invalid action">>, <<>>)]

\* supabase.functions.invoke: {data, error} for a response, or for no response at all
invoke(reached, response) ==
    IF ~reached
    THEN [data |-> <<>>, error |-> <<"Failed to send a request to the Edge Function">>]
    ELSE IF ~ResponseOk(response.status)
    THEN [data |-> <<>>, error |-> <<"Edge Function returned a non-2xx status code">>]
    ELSE [data |-> <<response.body>>, error |-> <<>>]

\* an invocation of the edge function as sent; `served` records what happened to it
Request(action, urlStatus) ==
    [action |-> action, stage |-> "request", result |-> <<>>, urlStatus |-> urlStatus,
     served |-> <<>>]

\* `disabled` of the pay button
PayDisabled == disabled \/ loading

\* variant: the handler does not set loading before its await
handlePayment_NoLoading ==
    /\ CanAct("CashfreePayment")
    /\ ~PayDisabled
    /\ Len(scripts) < MaxScripts
    /\ count.clicks < MaxClicks
    /\ inflight' = Append(inflight, Request("create_order", <<>>))
    /\ count' = [count EXCEPT !.clicks = @ + 1, !.invokes = @ + 1]
    /\ last' = "handlePayment"
    /\ out' = NoOut
    /\ UNCHANGED <<env, upiVars, clock, launched, loading, sdkLoaded, scripts, gateway, pending,
                   inApp, typed, emitCount>>

\* the pay button: handlePayment up to its await
handlePayment ==
    /\ CanAct("CashfreePayment")
    /\ ~PayDisabled
    /\ Len(scripts) < MaxScripts
    /\ count.clicks < MaxClicks
    /\ loading' = TRUE
    /\ inflight' = Append(inflight, Request("create_order", <<>>))
    /\ count' = [count EXCEPT !.clicks = @ + 1, !.invokes = @ + 1]
    /\ last' = "handlePayment"
    /\ out' = NoOut
    /\ UNCHANGED <<env, upiVars, clock, launched, sdkLoaded, scripts, gateway, pending, inApp,
                   typed, emitCount>>

\* the edge function answers the oldest unanswered request (or the request is lost)
Serve ==
    /\ component = "CashfreePayment"
    /\ \E i \in DOMAIN inflight :
        /\ inflight[i].stage = "request"
        /\ \A j \in 1..(i - 1) : inflight[j].stage # "request"
        /\ \E reached, appId, secretKey \in BOOLEAN,
              remote \in OutcomesOf(inflight[i].action) :
            LET response == serve(inflight[i].action, appId, secretKey, remote)
                called == IF reached THEN response.remote ELSE <<>>
                answered == [inflight[i] EXCEPT
                               !.stage = "response",
                               !.result = <<invoke(reached, response)>>,
                               !.served = <<[reached |-> reached, appId |-> appId,
                                             secretKey |-> secretKey, remote |-> remote]>>]
            IN
            /\ inflight' = [inflight EXCEPT ![i] = answered]
            /\ out' = [NoOut EXCEPT !.remote = called, !.call = <<answered>>]
            /\ count' = [count EXCEPT !.posts =
                           @ + Len(SelectSeq(called, LAMBDA c : c = "POST /orders"))]
    /\ last' = "serve"
    /\ UNCHANGED <<env, upiVars, clock, launched, loading, sdkLoaded, scripts, gateway, pending,
                   inApp, typed, emitCount>>

Nothing == [failure |-> <<>>, checkout |-> <<>>, script |-> <<>>, invoke |-> <<>>]

\* variant: a failed order creation is tried again
AfterInvoke_RetryOnFailure(r, sdkThrows) ==
    IF r.error # <<>>
    THEN [Nothing EXCEPT !.failure = r.error,
                         !.invoke = IF count.invokes <= count.clicks
                                    THEN <<Request("create_order", <<>>)>> ELSE <<>>]
    ELSE LET checkoutOptions == [paymentSessionId |-> r.data[1].sessionId,
                                 redirectTarget |-> "_self"] IN
         IF sdkLoaded
         THEN IF sdkThrows
              THEN [Nothing EXCEPT !.failure = <<"Cashfree is not a function">>]
              ELSE [Nothing EXCEPT !.checkout = <<checkoutOptions>>]
         ELSE [Nothing EXCEPT !.script = <<checkoutOptions>>]

\* what handlePayment does after its await with {data, error}: the error it
\* catches, the checkout it opens, the script it appends, the calls it sends
AfterInvoke(r, sdkThrows) ==
    IF r.error # <<>>
    THEN [Nothing EXCEPT !.failure = r.error]
    ELSE IF ~r.data[1].success
    THEN [Nothing EXCEPT !.failure = IF r.data[1].error # <<>> THEN r.data[1].error
                                     ELSE <<"Failed to create payment">>]
    ELSE LET checkoutOptions == [paymentSessionId |-> r.data[1].sessionId,
                                 redirectTarget |-> "_self"] IN
         IF sdkLoaded
         THEN IF sdkThrows
              THEN [Nothing EXCEPT !.failure = <<"Cashfree is not a function">>]
              ELSE [Nothing EXCEPT !.checkout = <<checkoutOptions>>]
         ELSE [Nothing EXCEPT !.script = <<checkoutOptions>>]

\* variant: setLoading(false) sits at the end of the try block, not in a finally
Resume_NoFinally ==
    /\ component = "CashfreePayment"
    /\ inflight # <<>>
    /\ Head(inflight).action = "create_order"
    /\ Head(inflight).stage = "response"
    /\ \E sdkThrows \in BOOLEAN :
       LET a == AfterInvoke(Head(inflight).result[1], sdkThrows) IN
       /\ out' = [NoOut EXCEPT
                    !.failure = a.failure,
                    !.checkout = a.checkout,
                    !.script = a.script,
                    !.call = <<Head(inflight)>>,
                    !.toast = IF a.failure # <<>> THEN <<"Payment Failed">>
                              ELSE IF a.script # <<>> THEN <<"Redirecting to payment...">>
                              ELSE <<>>]
       /\ scripts' = scripts \o a.script
       /\ inflight' = Tail(inflight) \o a.invoke
       /\ count' = [count EXCEPT !.invokes = @ + Len(a.invoke)]
       /\ gateway' = IF a.checkout # <<>> /\ gateway = "idle" THEN "pending" ELSE gateway
       /\ loading' = IF mounted /\ a.failure = <<>> THEN FALSE ELSE loading
    /\ last' = "resume"
    /\ UNCHANGED <<env, upiVars, clock, launched, sdkLoaded, pending, inApp, typed, emitCount>>

\* handlePayment from its await to its end
Resume ==
    /\ component = "CashfreePayment"
    /\ inflight # <<>>
    /\ Head(inflight).action = "create_order"
    /\ Head(inflight).stage = "response"
    /\ \E sdkThrows \in BOOLEAN :
       LET a == AfterInvoke(Head(inflight).result[1], sdkThrows) IN
       /\ out' = [NoOut EXCEPT
                    !.failure = a.failure,
                    !.checkout = a.checkout,
                    !.script = a.script,
                    !.call = <<Head(inflight)>>,
                    !.toast = IF a.failure # <<>> THEN <<"Payment Failed">>
                              ELSE IF a.script # <<>> THEN <<"Redirecting to payment...">>
                              ELSE <<>>]
       /\ scripts' = scripts \o a.script
       /\ inflight' = Tail(inflight) \o a.invoke
       /\ count' = [count EXCEPT !.invokes = @ + Len(a.invoke)]
       /\ gateway' = IF a.checkout # <<>> /\ gateway = "idle" THEN "pending" ELSE gateway
    /\ loading' = IF mounted THEN FALSE ELSE loading
    /\ last' = "resume"
    /\ UNCHANGED <<env, upiVars, clock, launched, sdkLoaded, pending, inApp, typed, emitCount>>

\* script.onload of the oldest appended SDK script
ScriptLoad ==
    /\ component = "CashfreePayment"
    /\ scripts # <<>>
    /\ sdkLoaded' = TRUE
    /\ out' = [NoOut EXCEPT !.checkout = <<Head(scripts)>>]
    /\ scripts' = Tail(scripts)
    /\ gateway' = IF gateway = "idle" THEN "pending" ELSE gateway
    /\ last' = "onload"
    /\ UNCHANGED <<env, upiVars, clock, launched, loading, inflight, count, pending, inApp, typed,
                   emitCount>>

\* the oldest appended SDK script fails to load: no handler is registered for it
ScriptError ==
    /\ component = "CashfreePayment"
    /\ scripts # <<>>
    /\ scripts' = Tail(scripts)
    /\ last' = "onerror"
    /\ out' = NoOut
    /\ UNCHANGED <<env, upiVars, clock, launched, loading, sdkLoaded, inflight, count, gateway,
                   pending, inApp, typed, emitCount>>

----------------------------------------------------------------------------
(* The return from the gateway, on the checkout page *)

\* values the gateway substitutes for {order_status} in the return URL
UrlStatuses == {"PAID", "FAILED"}

\* the gateway redirects back to /checkout?cf_order_id=..&status=..: the page
\* asks the edge function to verify the order, whatever the URL says
handleGatewayReturn ==
    /\ component = "CashfreePayment"
    /\ gateway = "pending"
    /\ \E urlStatus \in UrlStatuses :
        inflight' = Append(inflight, Request("verify_payment", <<urlStatus>>))
    /\ gateway' = "verifying"
    /\ last' = "handleGatewayReturn"
    /\ out' = NoOut
    /\ UNCHANGED <<env, upiVars, clock, launched, loading, sdkLoaded, scripts, count, pending,
                   inApp, typed, emitCount>>

\* verifyPayment reported the order settled
Settled(r) ==
    /\ r.error = <<>>
    /\ r.data[1].success
    /\ r.data[1].paymentStatus = <<"paid">>

\* the verify call resolves: Verified if settled, Failed otherwise
VerifyResume ==
    /\ component = "CashfreePayment"
    /\ inflight # <<>>
    /\ Head(inflight).action = "verify_payment"
    /\ Head(inflight).stage = "response"
    /\ LET r == Head(inflight).result[1] IN
       IF Settled(r)
       THEN /\ gateway' = "verified"
            /\ out' = [NoOut EXCEPT !.success = <<"order">>, !.call = <<Head(inflight)>>]
       ELSE /\ gateway' = "failed"
            /\ out' = [NoOut EXCEPT !.failure = <<"Payment not completed">>,
                                    !.call = <<Head(inflight)>>]
    /\ inflight' = Tail(inflight)
    /\ last' = "verifyResume"
    /\ UNCHANGED <<env, upiVars, clock, launched, loading, sdkLoaded, scripts, count, pending,
                   inApp, typed, emitCount>>

----------------------------------------------------------------------------
(* The environment *)

\* the parent stops rendering the component: the shopper left the payment step
Unmount ==
    /\ mounted
    /\ mounted' = FALSE
    /\ last' = "unmount"
    /\ out' = NoOut
    /\ UNCHANGED <<component, platform, disabled, merchantName, upiVars, clock, launched, cashfreeVars,
                   pending, inApp, typed, emitCount>>

\* the platform routes the navigation just issued to a payment app
AppSwitch ==
    /\ mounted /\ ~inApp /\ out.nav # <<>>
    /\ inApp' = TRUE
    /\ pending' = [i \in DOMAIN pending |-> [pending[i] EXCEPT !.switched = TRUE]]
    /\ last' = "appSwitch"
    /\ out' = NoOut
    /\ UNCHANGED <<env, upiVars, clock, launched, cashfreeVars, typed, emitCount>>

\* the shopper comes back to the page
ReturnToPage ==
    /\ inApp
    /\ inApp' = FALSE
    /\ last' = "return"
    /\ out' = NoOut
    /\ UNCHANGED <<env, upiVars, clock, launched, cashfreeVars, pending, typed, emitCount>>

UPINext ==
    \/ \E method \in Methods : handleMethodSelect(method)
    \/ handleOpenApp
    \/ RetryOpenApp
    \/ FallbackFire
    \/ UPI_onChange
    \/ UPI_ClickConfirm
    \/ UPI_ChooseDifferent

ScanNext ==
    \/ Scan_Open
    \/ Scan_onChange
    \/ Scan_ClickConfirm
    \/ Scan_ChooseDifferent

CashfreeNext ==
    \/ handlePayment
    \/ Serve
    \/ Resume
    \/ ScriptLoad
    \/ ScriptError
    \/ handleGatewayReturn
    \/ VerifyResume

Next ==
    \/ UPINext
    \/ ScanNext
    \/ CashfreeNext
    \/ AppSwitch
    \/ ReturnToPage
    \/ Unmount

Spec == Init /\ [][Next]_vars

\* handleConfirmPayment run directly, whatever the button's `disabled` says
UPI_InvokeConfirm ==
    /\ CanAct("UPIPayment") /\ UPIPaymentUI
    /\ UPI_handleConfirmPayment

Scan_InvokeConfirm ==
    /\ CanAct("ScanToPayment") /\ showPaymentUI
    /\ Scan_handleConfirmPayment

HandlerNext ==
    \/ Next
    \/ UPI_InvokeConfirm
    \/ Scan_InvokeConfirm

\* as Spec, and the confirm handlers can also run while their button is disabled
SpecHandlers == Init /\ [][HandlerNext]_vars

----------------------------------------------------------------------------
(* The launch of UPIPayment under every display name *)

\* the display names: the texts of 1..MaxNameLen characters of NameChars
Names == UNION {[1..n -> NameChars] : n \in 1..MaxNameLen}

InitLinks == Mount({"UPIPayment"}, Names)

LinksNext ==
    \/ \E method \in Methods : handleMethodSelect(method)
    \/ handleOpenApp
    \/ RetryOpenApp
    \/ FallbackFire
    \/ UPI_ChooseDifferent
    \/ AppSwitch
    \/ ReturnToPage

SpecLinks == InitLinks /\ [][LinksNext]_vars

----------------------------------------------------------------------------
(* The countdown *)

\* variant: the borrow sets seconds to 60
NextTimeLeft_Borrow60(prev) ==
    IF prev.seconds > 0 THEN [prev EXCEPT !.seconds = prev.seconds - 1]
    ELSE IF prev.minutes > 0 THEN [minutes |-> prev.minutes - 1, seconds |-> 60]
    ELSE [minutes |-> 9, seconds |-> 59]

\* the updater the interval callback gives setTimeLeft
NextTimeLeft(prev) ==
    IF prev.seconds > 0 THEN [prev EXCEPT !.seconds = prev.seconds - 1]
    ELSE IF prev.minutes > 0 THEN [minutes |-> prev.minutes - 1, seconds |-> 59]
    ELSE [minutes |-> 9, seconds |-> 59]

\* variant: the countdown expires the session when it wraps
Tick_ExpiresAtZero ==
    /\ component \in {"UPIPayment", "ScanToPayment"} /\ mounted
    /\ timeLeft' = NextTimeLeft(timeLeft)
    /\ ticks' = IF ticks < MaxTicks THEN ticks + 1 ELSE ticks
    /\ IF timeLeft = [minutes |-> 0, seconds |-> 0]
       THEN /\ showPaymentUI' = FALSE
            /\ utrNumber' = <<>>
            /\ UNCHANGED <<selectedMethod, appLaunched>>
       ELSE UNCHANGED upiVars
    /\ last' = "tick"
    /\ out' = NoOut
    /\ UNCHANGED <<env, cashfreeVars, launched, pending, inApp, typed, emitCount>>

\* one run of the setInterval callback; the interval is cleared at the unmount
Tick ==
    /\ component \in {"UPIPayment", "ScanToPayment"} /\ mounted
    /\ timeLeft' = NextTimeLeft(timeLeft)
    /\ ticks' = IF ticks < MaxTicks THEN ticks + 1 ELSE ticks
    /\ last' = "tick"
    /\ out' = NoOut
    /\ UNCHANGED <<env, upiVars, cashfreeVars, launched, pending, inApp, typed, emitCount>>

InitClock ==
    /\ Mount({"UPIPayment", "ScanToPayment"}, {DefaultMerchantName})
    /\ ~disabled
    /\ ~isAndroid

\* the countdown among the events of ScanToPayment and the events of
\* UPIPayment that select, launch and reset, where no fallback is scheduled
ClockNext ==
    \/ Tick
    \/ \E method \in Methods : handleMethodSelect(method)
    \/ handleOpenApp
    \/ RetryOpenApp
    \/ UPI_ChooseDifferent
    \/ AppSwitch
    \/ ReturnToPage
    \/ ScanNext
    \/ Unmount

SpecClock == InitClock /\ [][ClockNext]_vars

----------------------------------------------------------------------------
(* Claims *)

IsValidReference(reference) == Len(Trim(reference)) >= MinUtrLen

Confirmed == out.confirm # <<>>
ConfirmedReference == out.confirm[1][1]

\* C1: every onPaymentConfirm call of UPIPayment and ScanToPayment carries a
\* reference whose trimmed length is at least 6
C1_ConfirmedReferenceValid ==
    Confirmed => IsValidReference(ConfirmedReference)

C1_Witness ==
    /\ Confirmed
    /\ Len(ConfirmedReference) = MinUtrLen

\* C2: handleConfirmPayment on an invalid reference calls nothing, leaves
\* selectedMethod, utrNumber, showPaymentUI and appLaunched as they were and
\* shows the validation toast
C2_InvalidConfirmRefused ==
    [][(last' = "handleConfirmPayment" /\ ~IsValidReference(utrNumber))
        => /\ UNCHANGED upiVars
           /\ out'.confirm = <<>>
           /\ out'.toast = <<"Enter UTR Number">>]_vars

C2_Witness ==
    /\ last = "handleConfirmPayment"
    /\ ~IsValidReference(utrNumber)
    /\ utrNumber # <<>>
    /\ out.toast = <<"Enter UTR Number">>

\* C3: after a confirmation was emitted the confirm control is disabled, and
\* onPaymentConfirm is called at most once per attempt
C3_ConfirmAtMostOnce ==
    /\ emitCount <= 1
    /\ emitCount > 0 => ConfirmDisabled

\* C4 as claimed: the reference passed to onPaymentConfirm is the text the
\* shopper entered, and the channel is the selected one
C4_EmitsEnteredText ==
    Confirmed =>
        /\ ConfirmedReference = typed
        /\ component = "UPIPayment" => out.confirm[1][2] = selectedMethod

\* C4 as amended: the reference passed to onPaymentConfirm is the entered text
\* with every non-digit character removed, and the channel is the selected one
C4_EmitsDigitsOfEnteredText ==
    Confirmed =>
        /\ ConfirmedReference = StripNonDigits(typed)
        /\ ConfirmedReference = utrNumber
        /\ component = "UPIPayment" => out.confirm[1] = <<utrNumber, selectedMethod>>
        /\ component = "ScanToPayment" => out.confirm[1] = <<utrNumber>>

C4_Witness ==
    /\ Confirmed
    /\ component = "UPIPayment"
    /\ typed # ConfirmedReference
    /\ out.confirm[1][2] = ScanToPay

\* C5: wherever UPIPayment lets a channel be selected, and right after a
\* selection, utrNumber is empty
C5_SelectionHasNoReference ==
    (component = "UPIPayment" /\ (~UPIPaymentUI \/ last = "handleMethodSelect"))
        => utrNumber = <<>>

C5_Witness ==
    /\ last = "handleMethodSelect"
    /\ StripNonDigits(typed) # <<>>
    /\ utrNumber = <<>>

\* C6: showPaymentUI implies a selected method, and no navigation is issued
\* while selectedMethod is null
C6_ChannelBeforeNavigation ==
    component = "UPIPayment" =>
        /\ showPaymentUI => selectedMethod # Null
        /\ out.nav # <<>> => selectedMethod # Null

\* C7: "choose a different payment method" leaves showPaymentUI false and
\* utrNumber empty, and in UPIPayment selectedMethod null and appLaunched false
C7_ResetClears ==
    last = "reset" =>
        /\ showPaymentUI = FALSE
        /\ utrNumber = <<>>
        /\ component = "UPIPayment" => selectedMethod = Null /\ appLaunched = FALSE

C7_Witness ==
    /\ last = "reset"
    /\ component = "UPIPayment"
    /\ StripNonDigits(typed) # <<>>
    /\ pending # <<>>

\* C8: on Android the launch of an app channel issues the intent URI with the
\* app's package at once, and the generic upi link follows from the timer only
\* if no app switch happened since
C8_IntentThenGuardedFallback ==
    /\ (last = "handleOpenApp" /\ isAndroid /\ selectedMethod \in AppKeys)
         => out.nav = <<generateAndroidIntent(UPI_APPS[selectedMethod].package)>>
    /\ last = "fallback"
         => /\ out.nav = <<generateUPILink("upi")>>
            /\ \A i \in DOMAIN out.fired : ~out.fired[i].switched

\* C9: a fallback scheduled before a reset never fires after it
C9_FallbackCancelledOnReset ==
    \A i \in DOMAIN out.fired : ~out.fired[i].stale

\* C10: a create_order call that resolves after the component was left opens
\* no checkout and calls no order-system callback
C10_StaleResponseDiscarded ==
    (component = "CashfreePayment" /\ ~mounted)
        => out.checkout = <<>> /\ out.failure = <<>>

----------------------------------------------------------------------------
(* Claims about the hosted gateway *)

\* the call the most recent step answered or resumed, and what happened to it
Call == out.call[1]
Served == Call.served[1]

HasCall(step, action) ==
    /\ last = step
    /\ out.call # <<>>
    /\ Call.action = action

CredentialsPresent == Served.appId /\ Served.secretKey

\* the request reached the edge function, which had its credentials, and the
\* gateway answered it
GatewayAnswered == Served.reached /\ CredentialsPresent /\ ~Served.remote.threw

\* C11: the return from the gateway always sends a verify_payment call, and
\* the flow ends verified, with onPaymentSuccess, exactly when the gateway
\* reports order_status "PAID", whatever status the return URL carried
C11_VerifyDecides ==
    /\ last = "handleGatewayReturn"
         => \E i \in DOMAIN inflight :
               inflight[i].action = "verify_payment" /\ inflight[i].stage = "request"
    /\ HasCall("verifyResume", "verify_payment")
         => /\ gateway \in {"verified", "failed"}
            /\ gateway = "verified" <=> out.success # <<>>
            /\ out.failure # <<>> <=> out.success = <<>>
            /\ out.success # <<>>
                 <=> (GatewayAnswered /\ Served.remote.status = 200
                        /\ Served.remote.orderStatus = <<"PAID">>)

C11_Witness ==
    /\ HasCall("verifyResume", "verify_payment")
    /\ Call.urlStatus = <<"FAILED">>
    /\ gateway = "verified"

\* C12: with the app id or the secret missing the edge function calls the
\* gateway for nothing, and handlePayment ends in onPaymentFailure with no
\* checkout, no SDK script and no onPaymentSuccess
C12_MissingCredentials ==
    /\ (HasCall("serve", "create_order") /\ Served.reached /\ ~CredentialsPresent)
         => out.remote = <<>>
    /\ (HasCall("resume", "create_order") /\ Served.reached /\ ~CredentialsPresent)
         => /\ out.failure # <<>>
            /\ out.toast = <<"Payment Failed">>
            /\ out.checkout = <<>>
            /\ out.script = <<>>
            /\ out.success = <<>>

C12_Witness ==
    /\ HasCall("resume", "create_order")
    /\ Served.reached /\ Served.appId /\ ~Served.secretKey
    /\ out.failure # <<>>
    /\ count.posts = 0

\* C13: when the gateway refuses the order with a message, onPaymentFailure
\* gets that message and no checkout is opened
C13_RemoteMessageSurfaced ==
    (HasCall("resume", "create_order") /\ GatewayAnswered
        /\ ~ResponseOk(Served.remote.status) /\ Served.remote.message # <<>>)
      => /\ out.failure = Served.remote.message
         /\ out.checkout = <<>>
         /\ out.script = <<>>

\* C14: there are never more create_order invocations, nor more POSTs to the
\* gateway, than clicks on the pay button
C14_NoAutomaticRetry ==
    /\ count.invokes <= count.clicks
    /\ count.posts <= count.clicks
    /\ last = "serve" => Len(out.remote) <= 1

C14_Witness ==
    /\ HasCall("resume", "create_order")
    /\ out.failure # <<>>
    /\ inflight = <<>>
    /\ count = [clicks |-> 2, invokes |-> 2, posts |-> 2]

\* C15: when handlePayment has finished, by any path, loading is false and the
\* pay button is disabled only by the prop
C15_LoadingReleased ==
    (last = "resume" /\ mounted)
      => /\ loading = FALSE
         /\ PayDisabled <=> disabled

C15_Witness ==
    /\ last = "resume" /\ mounted
    /\ out.failure = <<"Cashfree is not a function">>
    /\ ~PayDisabled

\* C16: a checkout is opened, or an SDK script appended for it, only after the
\* gateway created the order, and with the payment_session_id of its answer
C16_HandleFromGateway ==
    /\ (HasCall("resume", "create_order") /\ (out.checkout # <<>> \/ out.script # <<>>))
         => /\ GatewayAnswered
            /\ Served.remote.status = 200
            /\ \A i \in DOMAIN out.checkout :
                  out.checkout[i].paymentSessionId = Served.remote.session
            /\ \A i \in DOMAIN out.script :
                  out.script[i].paymentSessionId = Served.remote.session
    /\ \A i \in DOMAIN out.checkout :
          out.checkout[i].paymentSessionId \in {<<id>> : id \in SessionIds}
    /\ \A i \in DOMAIN scripts :
          scripts[i].paymentSessionId \in {<<id>> : id \in SessionIds}

C16_Witness ==
    /\ HasCall("resume", "create_order")
    /\ out.checkout # <<>>
    /\ out.checkout[1].paymentSessionId = <<"session_b">>

\* C17: a successful verify_payment response says 'paid' exactly for
\* order_status "PAID" and 'pending' for every other status
C17_PaidIffPAID ==
    \A i \in DOMAIN inflight :
        (inflight[i].action = "verify_payment" /\ inflight[i].stage = "response"
            /\ inflight[i].result[1].data # <<>>)
          => LET body == inflight[i].result[1].data[1]
                 remote == inflight[i].served[1].remote
             IN /\ body.success
                /\ body.orderStatus = remote.orderStatus
                /\ body.paymentStatus =
                     <<IF remote.orderStatus = <<"PAID">> THEN "paid" ELSE "pending">>

C17_Witness ==
    \E i \in DOMAIN inflight :
        /\ inflight[i].action = "verify_payment" /\ inflight[i].stage = "response"
        /\ inflight[i].result[1].data # <<>>
        /\ inflight[i].served[1].remote.orderStatus = <<"paid">>
        /\ inflight[i].result[1].data[1].paymentStatus = <<"pending">>

----------------------------------------------------------------------------
(* Claims about the launch *)

\* where the navigations go: each URI without its query string
Targets(navs) ==
    [i \in DOMAIN navs |-> [kind |-> navs[i].kind, scheme |-> navs[i].scheme,
                            package |-> navs[i].package]]

ExpectedPackage(method) ==
    CASE method = "PhonePe" -> "com.phonepe.app"
      [] method = "GPay" -> "com.google.android.apps.nbu.paisa.user"
      [] method = "Paytm" -> "net.one97.paytm"

ExpectedIosScheme(method) ==
    CASE method = "PhonePe" -> "phonepe"
      [] method = "GPay" -> "gpay"
      [] method = "Paytm" -> "paytm"

\* C18: on iOS the launch of an app channel issues one navigation, to the
\* app's iOS scheme, and schedules no fallback
C18_IosSchemeOnly ==
    (last = "handleOpenApp" /\ isIOS /\ selectedMethod \in AppKeys)
      => /\ Targets(out.nav) =
              <<[kind |-> "link", scheme |-> ExpectedIosScheme(selectedMethod),
                 package |-> Null]>>
         /\ pending = <<>>

C18_Witness ==
    /\ last = "handleOpenApp" /\ isIOS
    /\ selectedMethod = "GPay"
    /\ Len(out.nav) = 1

\* C19: with 'Scan To Pay' selected, or on a platform that is not mobile,
\* neither the Continue button nor 'open again' navigates or schedules a
\* navigation; the Continue button shows the payment UI
C19_NoNavigationForScanOrDesktop ==
    [][(last' \in {"handleOpenApp", "openUPIApp"}
          /\ (selectedMethod = ScanToPay \/ ~isMobile))
        => /\ out'.nav = <<>>
           /\ pending' = pending
           /\ showPaymentUI']_vars

C19_Witness ==
    /\ last = "handleOpenApp"
    /\ selectedMethod = ScanToPay
    /\ isAndroid
    /\ pending # <<>>
    /\ showPaymentUI

\* C20: 'open again' issues the launch navigation again and leaves
\* selectedMethod, utrNumber, showPaymentUI and appLaunched as they were
C20_OpenAgainKeepsState ==
    [][last' = "openUPIApp"
        => /\ UNCHANGED upiVars
           /\ isAndroid => Targets(out'.nav) =
                              <<[kind |-> "intent", scheme |-> "upi",
                                 package |-> ExpectedPackage(selectedMethod)]>>
           /\ isIOS => Targets(out'.nav) =
                          <<[kind |-> "link",
                             scheme |-> ExpectedIosScheme(selectedMethod),
                             package |-> Null]>>]_vars

C20_Witness ==
    /\ last = "openUPIApp"
    /\ isAndroid
    /\ Len(pending) = 2
    /\ utrNumber # <<>>

----------------------------------------------------------------------------
(* Claims about the deep links *)

RECURSIVE PercentDecode(_)
\* a query value decoded once, the way a URL query is read: %XX is the
\* character it stands for and '+' is a blank
PercentDecode(s) ==
    IF s = <<>> THEN <<>>
    ELSE IF /\ Head(s) = "%" /\ Len(s) >= 3
            /\ \E c \in DOMAIN EscapeCode : EscapeCode[c] = <<s[2], s[3]>>
    THEN <<CHOOSE c \in DOMAIN EscapeCode : EscapeCode[c] = <<s[2], s[3]>>>>
         \o PercentDecode(SubSeq(s, 4, Len(s)))
    ELSE (IF Head(s) = "+" THEN <<" ">> ELSE <<Head(s)>>) \o PercentDecode(Tail(s))

\* the URIs the last step navigated to
Issued == {out.nav[i] : i \in DOMAIN out.nav}

\* C21: in every URI the page navigates to, pn decoded once is the display
\* name and tn decoded once is "Payment to " followed by the display name
C21_FreeTextDecodesOnce ==
    \A u \in Issued :
        /\ PercentDecode(u.query.pn) = merchantName
        /\ PercentDecode(u.query.tn) =
             <<"P", "a", "y", "m", "e", "n", "t", " ", "t", "o", " ">> \o merchantName

----------------------------------------------------------------------------
(* Claims about the countdown *)

\* C22: a tick takes one second off, borrowing a minute at seconds 0 and
\* going from (0,0) to (9,59); 13 ticks after the mount UPIPayment shows
\* (5,59); seconds stays in 0..59 and minutes in 0..9
C22_CountdownSteps ==
    /\ [](/\ timeLeft.seconds \in 0..59
          /\ timeLeft.minutes \in 0..9
          /\ (component = "UPIPayment" /\ ticks = 13)
               => timeLeft = [minutes |-> 5, seconds |-> 59])
    /\ [][last' = "tick"
          => /\ timeLeft.seconds > 0
                => timeLeft' = [minutes |-> timeLeft.minutes,
                                seconds |-> timeLeft.seconds - 1]
             /\ (timeLeft.seconds = 0 /\ timeLeft.minutes > 0)
                => timeLeft' = [minutes |-> timeLeft.minutes - 1, seconds |-> 59]
             /\ (timeLeft.seconds = 0 /\ timeLeft.minutes = 0)
                => timeLeft' = [minutes |-> 9, seconds |-> 59]]_vars

C22_Witness ==
    /\ component = "UPIPayment"
    /\ last = "tick"
    /\ ticks > 13
    /\ timeLeft = [minutes |-> 9, seconds |-> 59]

\* C23: a tick changes the countdown and nothing else of the page: the
\* selected method, the UTR, showPaymentUI and appLaunched stay, no fallback
\* is run or dropped, nothing is emitted and nothing is shown or navigated
C23_TickOnlyMovesCountdown ==
    [][last' = "tick"
        => /\ UNCHANGED <<selectedMethod, utrNumber, showPaymentUI, appLaunched>>
           /\ UNCHANGED <<pending, emitCount, mounted, inApp>>
           /\ out'.confirm = <<>> /\ out'.nav = <<>> /\ out'.toast = <<>>
           /\ out'.fired = <<>>]_vars

C23_Witness ==
    /\ last = "tick"
    /\ timeLeft = [minutes |-> 9, seconds |-> 59]
    /\ ticks > 13
    /\ showPaymentUI
    /\ utrNumber # <<>>

----------------------------------------------------------------------------
(* Claims about the confirmation *)

\* C24: the confirm button is enabled exactly for the references whose
\* trimmed length is at least 6, and handleConfirmPayment calls
\* onPaymentConfirm for exactly the same references
C24_LiveAndSubmitSameRule ==
    /\ []((component \in {"UPIPayment", "ScanToPayment"} /\ ~disabled)
           => (ConfirmDisabled <=> ~IsValidReference(utrNumber)))
    /\ [][last' = "handleConfirmPayment"
          => (out'.confirm # <<>> <=> IsValidReference(utrNumber))]_vars

C24_Witness ==
    /\ last = "handleConfirmPayment"
    /\ Confirmed
    /\ typed = <<" ", "1", "1", "1", "1", "1", "1">>
    /\ ~ConfirmDisabled

\* C26: UPIPayment calls onPaymentConfirm only after a method was
\* selected and launched: at the call selectedMethod is set and
\* showPaymentUI and appLaunched are true
C26_ConfirmOnlyWhenLaunched ==
    (component = "UPIPayment" /\ Confirmed)
      => /\ selectedMethod \in Methods
         /\ showPaymentUI
         /\ appLaunched
         /\ out.confirm[1][2] = selectedMethod

C26_Witness ==
    /\ component = "UPIPayment"
    /\ Confirmed
    /\ selectedMethod = "Paytm"
    /\ appLaunched
    /\ emitCount = 1

----------------------------------------------------------------------------
(* Claims about the hosted checkout *)

\* the create_order calls that were sent and whose handler has not resumed
Outstanding == {i \in DOMAIN inflight : inflight[i].action = "create_order"}

\* C27: at most one create_order call of the component is outstanding, and
\* while one is, the pay button of the mounted component is disabled
C27_OneCreateOrderOutstanding ==
    /\ Cardinality(Outstanding) <= 1
    /\ (Outstanding # {} /\ mounted) => (loading /\ PayDisabled)

C27_Witness ==
    /\ last = "handlePayment"
    /\ Outstanding # {}
    /\ count.clicks = 2
    /\ loading

\* C28: every way the hosted checkout can fail shows a notification and
\* calls onPaymentFailure: a handlePayment that ends without opening the
\* checkout or appending the SDK script, and an SDK script that fails to load
C28_NoSilentFailure ==
    /\ (last = "resume" /\ out.checkout = <<>> /\ out.script = <<>>)
         => (out.toast = <<"Payment Failed">> /\ out.failure # <<>>)
    /\ last = "onerror"
         => (out.toast # <<>> /\ out.failure # <<>>)

====
